---- MODULE Spec2Model ----
(***************************************************************************)
(* Merge-plan compilation of the Video-Merger backend.                     *)
(*                                                                         *)
(* The repository holds three versions of utils/ffmpegHelper.js:           *)
(*   "general" : src/unnamed/part_000, mergeVideos(options) with            *)
(*               buildFilterGraph over n clips (trim, audio option,         *)
(*               fade / crossfade / concat, watermark);                     *)
(*   "norm2"   : src/unnamed/part_003, two clips, normalised streams;       *)
(*   "legacy"  : src/backend/utils/ffmpegHelper.js, two clips, no probing.  *)
(* A run of the model is one merge call of one of them.  The filter graph  *)
(* the code assembles as a string is kept as the sequence of its filter    *)
(* chains (nodes): the labels a chain reads, the labels it writes, the      *)
(* filters of the chain and their parameters.                               *)
(*                                                                         *)
(* Times are counted in ticks of half a second: 0.5 s = 1, 1 s = 2.         *)
(***************************************************************************)
EXTENDS Integers, Sequences, FiniteSets, TLC

\* Largest number of clips of one merge request of the model.
MaxClips == 3

\* Longest watermark text of the model of the escaping.
MaxLen == 3

\* Largest time mark, in ticks, the engine reports in a progress event.
MaxMark == 2
\* Most frames a progress stream writes while its job is being processed.
MaxFrames == 2
\* How long the clock of the stale-file job runs, in units of 10 minutes
MaxTime == 12
\* Most files the user chooses on one page, and most merges started at once
MaxFiles == 3
MaxMerges == 2

\* const fadeDuration = 0.5 (seconds), in ticks.
fadeDuration == 1
\* const xfadeDuration = 1 (second), in ticks.
xfadeDuration == 2
\* fps=30 of the norm2 video chain.
FPS_NORM == 30
\* aresample=44100 of AUDIO_NORM, and ffmpeg's default rate of aevalsrc.
RATE_NORM == 44100

Max(a, b) == IF a >= b THEN a ELSE b
Min(a, b) == IF a <= b THEN a ELSE b

----------------------------------------------------------------------------
(* Request values.  A trim field of the request is undefined, the empty    *)
(* string, a non-numeric string or a numeric string.                       *)

Undef == [kind |-> "undefined", num |-> 0]
Empty == [kind |-> "empty", num |-> 0]
Junk  == [kind |-> "nonnumeric", num |-> 0]
Num(x) == [kind |-> "num", num |-> x]

\* parseFloat(val) yields a number exactly for a numeric string.
IsNumeric(val) == val.kind = "num"

\* `parseFloat(val) || dflt`: NaN and 0 are falsy.
parseFloatOr(val, dflt) == IF IsNumeric(val) /\ val.num # 0 THEN val.num ELSE dflt

\* A JS string used as a condition: undefined and '' are falsy.
Truthy(val) == val.kind \in {"nonnumeric", "num"}

\* The clips a request is drawn from: the trim fields of the request and the
\* media file behind it (its duration in ticks, whether it has an audio
\* stream, its native frame rate, pixel format, sample rate and channel
\* layout).
ClipCases ==
  { \* whole clip, 10 s, with audio
    [trimStart |-> Undef,   trimEnd |-> Undef,   duration |-> 20, hasAudio |-> TRUE,
     fps |-> 30, rate |-> 44100, pix |-> "yuv420p", layout |-> "stereo"],
    \* 2 s .. 7 s of 10 s, no audio
    [trimStart |-> Num(4),  trimEnd |-> Num(14), duration |-> 20, hasAudio |-> FALSE,
     fps |-> 24, rate |-> 48000, pix |-> "yuv444p", layout |-> "mono"],
    \* 2 s .. 7 s of 10 s, with audio
    [trimStart |-> Num(4),  trimEnd |-> Num(14), duration |-> 20, hasAudio |-> TRUE,
     fps |-> 24, rate |-> 48000, pix |-> "yuv444p", layout |-> "mono"],
    \* 2 s .. 20 s of 10 s: requested end beyond the duration
    [trimStart |-> Num(4),  trimEnd |-> Num(40), duration |-> 20, hasAudio |-> FALSE,
     fps |-> 30, rate |-> 44100, pix |-> "yuv420p", layout |-> "stereo"],
    \* start 12 s of 10 s: start beyond the duration
    [trimStart |-> Num(24), trimEnd |-> Undef,   duration |-> 20, hasAudio |-> TRUE,
     fps |-> 30, rate |-> 44100, pix |-> "yuv420p", layout |-> "stereo"],
    \* half a second, unparsable trim fields, no audio
    [trimStart |-> Junk,    trimEnd |-> Empty,   duration |-> 1,  hasAudio |-> FALSE,
     fps |-> 30, rate |-> 48000, pix |-> "yuv420p", layout |-> "mono"],
    \* negative start and end "0" on 1.5 s
    [trimStart |-> Num(-2), trimEnd |-> Num(0),  duration |-> 3,  hasAudio |-> TRUE,
     fps |-> 24, rate |-> 44100, pix |-> "yuv444p", layout |-> "stereo"] }

AudioOptions == {"keepAll", "muteAll", "keepFirst"}
Transitions == {"none", "fade", "crossfade"}

\* Watermark texts, as sequences of characters; <<>> is no watermark and
\* <<" ">> is blank (watermark.trim() is empty).
Watermarks == { <<>>, <<" ">>, <<"a", "'", ":">> }

Variants == {"general", "norm2", "legacy"}

\* Watermark texts for the escaping: every string of up to MaxLen characters
\* over an ordinary character, the quote, the field separator and the
\* backslash.
EscChars == {"a", "'", ":", "\\"}
WatermarkTexts == UNION { [1..len -> EscChars] : len \in 0..MaxLen }

----------------------------------------------------------------------------
(* Labels of the filter graph.                                             *)

\* [i:v] and [i:a]: the raw streams of input i.
InV(i) == <<"in:v", i>>
InA(i) == <<"in:a", i>>
\* [v3], [a3], [vfin3], ... and the unindexed [outv], [outa], ...
Lbl(name, i) == <<name, i>>
OUTV == <<"outv", 0>>
OUTA == <<"outa", 0>>
WATERMARKED == <<"watermarked", 0>>
OUTV2 == <<"outv2", 0>>
NoLabel == <<"none", 0>>

IsRaw(l) == l[1] \in {"in:v", "in:a"}

----------------------------------------------------------------------------
VARIABLES
  variant,              \* which ffmpegHelper the call runs
  videos,               \* the request: per clip [trimStart, trimEnd]
  media,                \* the files: per clip [duration, hasAudio, fps, rate, pix, layout]
  audioOption, transition, watermark,
  pc,                   \* position of the merge call
  i,                    \* loop index of the running loop
  probes,               \* probeVideo results, <<>> before probing
  trims,                \* norm2: per clip [start, end, isNull, needTrim]
  effectiveDurations,   \* general: effectiveDurations
  totalDuration,        \* general: totalDuration used for progress
  filters,              \* the filter chains pushed so far
  fadedVideoLabels, fadedAudioLabels,
  currentVideoLabel, currentAudioLabel, cumulativeOffset,
  finalVideoLabel, finalAudioLabel,
  inputOptions,         \* legacy: per input the -ss / -to options set
  engine,               \* the ffmpeg command: "idle" until .run() starts it
  pending               \* how many of the ffprobe calls have not called back yet

inputs == <<variant, videos, media, audioOption, transition, watermark>>
fadeVars == <<fadedVideoLabels, fadedAudioLabels>>
xfadeVars == <<currentVideoLabel, currentAudioLabel, cumulativeOffset>>
finalVars == <<finalVideoLabel, finalAudioLabel, inputOptions>>
helperVars == <<inputs, pc, i, probes, trims, effectiveDurations, totalDuration,
                filters, fadeVars, xfadeVars, finalVars, engine, pending>>

----------------------------------------------------------------------------
(* The merge controller with the job store, src/unnamed/part_005: one      *)
(* POST /merge request, the merge it starts in the background, one          *)
(* GET /progress/:id stream and DELETE /cleanup/:id for its job.            *)
VARIABLES
  body,                 \* req.body.videos of POST /merge: how many clips it names
  mergeRes,             \* the answer to POST /merge, "none" before it
  jobs,                 \* the job store: <<>> or the one job of the request
  merge,                \* the background mergeVideos call and its ffmpeg process
  disk,                 \* the files that exist: uploaded inputs and the output
  sse,                  \* the response of GET /progress/:id
  interval,             \* its setInterval timer
  frames,               \* the data frames written to it
  reqClosed,            \* its client has closed the connection
  cleanupRes            \* the answer to DELETE /cleanup/:id, "none" before it

jobVars == <<body, mergeRes, jobs, merge, disk, sse, interval, frames, reqClosed,
             cleanupRes>>

(* The progress events of the engine as the helper hands them on.           *)
VARIABLES
  timemark,             \* the time mark of the engine's last progress event, in ticks
  delivered             \* the percentages onProgress has been called with, in order

progressVars == <<timemark, delivered>>
ProgressIdle == timemark = 0 /\ delivered = <<>>

(* The stale-file job: the clock in units of 10 minutes, the files of the  *)
(* upload and output directories with their last modification, and the     *)
(* time of the last run of the cron job.                                    *)
VARIABLES
  now,                  \* Date.now()
  files,                \* the files on disk: records [name, mtime]
  lastRun               \* when cleanupOldFiles ran last

cronVars == <<now, files, lastRun>>
CronIdle == now = 0 /\ files = {} /\ lastRun = 0

(* The page, src/frontend/app.js.                                           *)
VARIABLES
  slots,                \* the two slots: 0 for null, else the file uploaded into it
  inflight,             \* uploads awaiting their answer: records [file, slot]
  disabled,             \* mergeBtn.disabled
  merging,              \* POST /merge requests of startMerge awaiting their outcome
  nextFile              \* the files the user has chosen so far, plus one

pageVars == <<slots, inflight, disabled, merging, nextFile>>
PageIdle ==
  /\ slots = <<0, 0>>
  /\ inflight = {}
  /\ disabled = TRUE
  /\ merging = 0
  /\ nextFile = 1

(* POST /merge answered as an event stream, startMerge of                   *)
(* src/unnamed/part_004.                                                    *)
VARIABLES
  named,                \* req.body.videos: how many clips it names
  onDisk,               \* which of the named files exist
  call,                 \* where startMerge is: "pending", "merging" or "returned"
  written,              \* the frames sent on the response, in order
  ends,                 \* how often res.end() has been called
  jobStore              \* the job store: the ids of the recorded jobs

sseVars == <<named, onDisk, call, written, ends, jobStore>>
SseIdle ==
  /\ named = 0
  /\ onDisk = {}
  /\ call = "pending"
  /\ written = <<>>
  /\ ends = 0
  /\ jobStore = {}

(* POST /merge with multipart form data, mergeVideosRest of                 *)
(* src/unnamed/part_004 behind the upload middleware of part_001.           *)
VARIABLES
  reqFiles,             \* req.files: the uploaded fields, records [field, mimetype]
  tempFiles,            \* the paths collected for deletion
  tmpDir,               \* the files of /tmp/uploads and /tmp/outputs that exist
  rest,                 \* where mergeVideosRest is
  restStatus            \* the status of its response, 0 before it

restVars == <<reqFiles, tempFiles, tmpDir, rest, restStatus>>
RestIdle ==
  /\ reqFiles = {}
  /\ tempFiles = {}
  /\ tmpDir = {}
  /\ rest = "start"
  /\ restStatus = 0

\* Everything outside the helper, and everything outside the job controller.
serverVars == <<jobVars, progressVars, cronVars, pageVars, sseVars, restVars>>
notJobVars == <<helperVars, progressVars, cronVars, pageVars, sseVars, restVars>>
notProgressVars == <<jobVars, cronVars, pageVars, sseVars, restVars>>
notCronVars == <<helperVars, jobVars, progressVars, pageVars, sseVars, restVars>>
notPageVars == <<helperVars, jobVars, progressVars, cronVars, sseVars, restVars>>
notSseVars == <<helperVars, jobVars, progressVars, cronVars, pageVars, restVars>>
notRestVars == <<helperVars, jobVars, progressVars, cronVars, pageVars, sseVars>>

vars == <<helperVars, serverVars>>

\* No request has reached the job controller.
JobsIdle ==
  /\ body = 0
  /\ mergeRes = "none"
  /\ jobs = <<>>
  /\ merge = "none"
  /\ disk = {}
  /\ sse = "none"
  /\ interval = "none"
  /\ frames = <<>>
  /\ reqClosed = FALSE
  /\ cleanupRes = "none"

\* Nothing but the helper is at work.
NoServer == JobsIdle /\ ProgressIdle /\ CronIdle /\ PageIdle /\ SseIdle /\ RestIdle

n == Len(videos)
\* JS arrays are indexed from 0, TLA+ sequences from 1.
At(seq, k) == seq[k + 1]

\* A merge call that has been made and has not done anything yet.
NotStarted ==
  /\ pc = "start"
  /\ i = 0
  /\ probes = <<>>
  /\ trims = <<>>
  /\ effectiveDurations = <<>>
  /\ totalDuration = 0
  /\ filters = <<>>
  /\ fadedVideoLabels = <<>>
  /\ fadedAudioLabels = <<>>
  /\ currentVideoLabel = NoLabel
  /\ currentAudioLabel = NoLabel
  /\ cumulativeOffset = 0
  /\ finalVideoLabel = NoLabel
  /\ finalAudioLabel = NoLabel
  /\ inputOptions = <<>>
  /\ engine = "idle"
  /\ pending = IF variant = "legacy" THEN 0 ELSE Len(videos)

\* No merge call is modelled: the helper's variables stay as they are.
NoHelper ==
  /\ variant = "general"
  /\ videos = <<>>
  /\ media = <<>>
  /\ audioOption = "keepAll"
  /\ transition = "none"
  /\ watermark = <<>>
  /\ NotStarted

\* Nothing but the named part is at work.
OnlyJobs == NoHelper /\ ProgressIdle /\ CronIdle /\ PageIdle /\ SseIdle /\ RestIdle
OnlyCron == NoHelper /\ JobsIdle /\ ProgressIdle /\ PageIdle /\ SseIdle /\ RestIdle
OnlyPage == NoHelper /\ JobsIdle /\ ProgressIdle /\ CronIdle /\ SseIdle /\ RestIdle
OnlySse == NoHelper /\ JobsIdle /\ ProgressIdle /\ CronIdle /\ PageIdle /\ RestIdle
OnlyRest == NoHelper /\ JobsIdle /\ ProgressIdle /\ CronIdle /\ PageIdle /\ SseIdle

Init ==
  /\ variant \in Variants
  /\ \E cnt \in 1..MaxClips :
       /\ variant \in {"norm2", "legacy"} => cnt = 2
       /\ \E cs \in [1..cnt -> ClipCases] :
            /\ videos = [k \in 1..cnt |-> [trimStart |-> cs[k].trimStart,
                                           trimEnd |-> cs[k].trimEnd]]
            /\ media = [k \in 1..cnt |-> [duration |-> cs[k].duration,
                                          hasAudio |-> cs[k].hasAudio,
                                          fps |-> cs[k].fps, rate |-> cs[k].rate,
                                          pix |-> cs[k].pix, layout |-> cs[k].layout]]
  /\ audioOption \in AudioOptions
  /\ transition \in Transitions
  /\ watermark \in Watermarks
  /\ NotStarted
  /\ NoServer

----------------------------------------------------------------------------
(* Filter chains.                                                          *)

\* One chain of the filter graph: `op` names its kind, `ins` are the labels
\* it reads, `outs` the labels it writes, `chain` the filters in order and
\* `p` their parameters.  `clip` is the input the chain belongs to (-1 for
\* a chain that joins clips).
Node(op, clip, ins, outs, chain, p) ==
  [op |-> op, clip |-> clip, ins |-> ins, outs |-> outs, chain |-> chain, p |-> p]

Has(chain, f) == \E k \in 1..Len(chain) : chain[k] = f

RECURSIVE Sum(_)
Sum(seq) == IF seq = <<>> THEN 0 ELSE Head(seq) + Sum(Tail(seq))

\* str.replace(/ch/g, '\\' + ch): a backslash before every occurrence of ch.
RECURSIVE EscapeChar(_, _)
EscapeChar(str, ch) ==
  IF str = <<>> THEN <<>>
  ELSE (IF Head(str) = ch THEN <<"\\", ch>> ELSE <<Head(str)>>)
       \o EscapeChar(Tail(str), ch)

\* safeText with the field separators left as they are.
safeText_quotesOnly(wm) == EscapeChar(wm, "'")

\* watermark.replace(/'/g, "\\'").replace(/:/g, '\\:')
safeText(wm) == EscapeChar(EscapeChar(wm, "'"), ":")

\* HasWatermark without the trim(): any non-empty text counts.
HasWatermark_nonEmpty(wm) == wm # <<>>

\* `watermark && watermark.trim()`
HasWatermark(wm) == wm # <<>> /\ \E k \in 1..Len(wm) : wm[k] # " "

\* The drawtext chain of all three helpers.
Drawtext(from, to, wm) ==
  Node("drawtext", -1, <<from>>, <<to>>, <<"drawtext">>, [text |-> safeText(wm)])

----------------------------------------------------------------------------
(* probeVideo                                                              *)

\* Promise.all over probeVideo resolves with every clip's metadata.
probeVideo(m) == [duration |-> m.duration, hasAudio |-> m.hasAudio]

\* ffprobe calls back with the metadata of one more clip.  The probes of a
\* call run side by side and the call waits for them; after a failure the
\* ones still running finish unheeded.
probeVideo_resolve ==
  /\ pc \in {"start", "rejected"}
  /\ pending > 0
  /\ pending' = pending - 1
  /\ UNCHANGED <<serverVars, inputs, engine, pc, i, probes, trims, effectiveDurations, totalDuration,
                 filters, fadeVars, xfadeVars, finalVars>>

\* ffprobe fails on some clip: Promise.all rejects and so does the merge.
probeVideo_reject ==
  /\ pc = "start"
  /\ variant \in {"general", "norm2"}
  /\ pending > 0
  /\ pending' = pending - 1
  /\ pc' = "rejected"
  /\ UNCHANGED <<serverVars, inputs, engine, i, probes, trims, effectiveDurations, totalDuration,
                 filters, fadeVars, xfadeVars, finalVars>>

\* Promise.all resolving on the first probe that does.
allProbed_any == pending < n

\* `await Promise.all(...)`: the call goes on once every probe has resolved.
allProbed == pending = 0

----------------------------------------------------------------------------
(* general: mergeVideos(options) and buildFilterGraph, src/unnamed/part_000 *)

mergeVideos_probe ==
  /\ pc = "start"
  /\ variant = "general"
  /\ allProbed
  /\ probes' = [k \in 1..n |-> probeVideo(media[k])]
  /\ pc' = "probed"
  /\ UNCHANGED <<serverVars, inputs, engine, pending, i, trims, effectiveDurations, totalDuration,
                 filters, fadeVars, xfadeVars, finalVars>>

\* One element of effectiveDurations.
effectiveDuration(v, probe) ==
  LET full  == probe.duration
      start == parseFloatOr(v.trimStart, 0)
      end   == parseFloatOr(v.trimEnd, full)
  IN  Min(end, full) - start

mergeVideos_effectiveDurations ==
  /\ pc = "probed"
  /\ variant = "general"
  /\ effectiveDurations' = [k \in 1..n |-> effectiveDuration(videos[k], probes[k])]
  /\ totalDuration' = Sum(effectiveDurations')
  /\ pc' = "step1"
  /\ i' = 0
  /\ UNCHANGED <<serverVars, inputs, engine, pending, probes, trims, filters, fadeVars, xfadeVars, finalVars>>

\* The video chain of clip k in buildFilterGraph.
videoFilter(k, v, probe) ==
  LET start == parseFloatOr(v.trimStart, 0)
      end   == parseFloatOr(v.trimEnd, probe.duration)
  IN  Node("video", k, <<InV(k)>>, <<Lbl("v", k)>>,
           <<"trim", "setpts", "scale", "pad", "setsar">>,
           [start |-> start, end |-> end])

\* Which clips get `aevalsrc` instead of their own audio.
silenced(k, probe, ao) ==
  IF probe.hasAudio
  THEN ao = "muteAll" \/ (ao = "keepFirst" /\ k > 0)
  ELSE TRUE

\* The audio chain of clip k in buildFilterGraph.
audioFilter(k, v, probe, ao, dur) ==
  LET start == parseFloatOr(v.trimStart, 0)
      end   == parseFloatOr(v.trimEnd, probe.duration)
  IN  IF silenced(k, probe, ao)
      THEN Node("aevalsrc", k, <<>>, <<Lbl("a", k)>>, <<"aevalsrc">>, [d |-> dur])
      ELSE Node("audio", k, <<InA(k)>>, <<Lbl("a", k)>>, <<"atrim", "asetpts">>,
                [start |-> start, end |-> end])

\* Step 1, one iteration of videos.forEach.
buildFilterGraph_step1 ==
  /\ pc = "step1"
  /\ variant = "general"
  /\ i < n
  /\ filters' = filters \o
       << videoFilter(i, At(videos, i), At(probes, i)),
          audioFilter(i, At(videos, i), At(probes, i), audioOption,
                      At(effectiveDurations, i)) >>
  /\ IF i + 1 < n
     THEN i' = i + 1 /\ pc' = "step1"
     ELSE i' = 0 /\ pc' = "step2"
  /\ UNCHANGED <<serverVars, inputs, engine, pending, probes, trims, effectiveDurations, totalDuration,
                 fadeVars, xfadeVars, finalVars>>

fadeStart(dur) == Max(0, dur - fadeDuration)

\* The chains one iteration of the fade loop pushes for clip k, and the
\* labels it ends on.
fadeClip(k, cnt, dur) ==
  LET fin == IF k > 0
             THEN << Node("fade", k, <<Lbl("v", k)>>, <<Lbl("vfin", k)>>, <<"fade">>,
                          [t |-> "in", st |-> 0, d |-> fadeDuration]),
                     Node("afade", k, <<Lbl("a", k)>>, <<Lbl("afin", k)>>, <<"afade">>,
                          [t |-> "in", st |-> 0, d |-> fadeDuration]) >>
             ELSE <<>>
      vf1 == IF k > 0 THEN Lbl("vfin", k) ELSE Lbl("v", k)
      af1 == IF k > 0 THEN Lbl("afin", k) ELSE Lbl("a", k)
      fout == IF k < cnt - 1
              THEN << Node("fade", k, <<vf1>>, <<Lbl("vfout", k)>>, <<"fade">>,
                           [t |-> "out", st |-> fadeStart(dur), d |-> fadeDuration]),
                      Node("afade", k, <<af1>>, <<Lbl("afout", k)>>, <<"afade">>,
                           [t |-> "out", st |-> fadeStart(dur), d |-> fadeDuration]) >>
              ELSE <<>>
      vf2 == IF k < cnt - 1 THEN Lbl("vfout", k) ELSE vf1
      af2 == IF k < cnt - 1 THEN Lbl("afout", k) ELSE af1
  IN  [nodes |-> fin \o fout, vf |-> vf2, af |-> af2]

\* Interleave with all video labels put before all audio labels.
Interleave_videosFirst(vs, as) == vs \o as

\* <<v[1], a[1], v[2], a[2], ...>>: the inputs of concat, pair by pair.
RECURSIVE Interleave(_, _)
Interleave(vs, as) ==
  IF vs = <<>> THEN <<>>
  ELSE <<Head(vs), Head(as)>> \o Interleave(Tail(vs), Tail(as))

\* concatNode with the pair count of the two-clip helpers written in.
concatNode_n2(vs, as, cnt) ==
  [op |-> "concat", clip |-> -1, ins |-> Interleave(vs, as), outs |-> <<OUTV, OUTA>>,
   chain |-> <<"concat">>, p |-> [n |-> 2, v |-> 1, a |-> 1]]

\* `${concatInput}concat=n=${n}:v=1:a=1[outv][outa]`
concatNode(vs, as, cnt) ==
  Node("concat", -1, Interleave(vs, as), <<OUTV, OUTA>>, <<"concat">>,
       [n |-> cnt, v |-> 1, a |-> 1])

\* transition === 'fade' && n > 1: one iteration of the fade loop.
buildFilterGraph_fade ==
  /\ pc = "step2"
  /\ variant = "general"
  /\ transition = "fade" /\ n > 1
  /\ i < n
  /\ LET r == fadeClip(i, n, At(effectiveDurations, i)) IN
       /\ filters' = filters \o r.nodes
       /\ fadedVideoLabels' = Append(fadedVideoLabels, r.vf)
       /\ fadedAudioLabels' = Append(fadedAudioLabels, r.af)
  /\ IF i + 1 < n
     THEN i' = i + 1 /\ pc' = "step2"
     ELSE i' = 0 /\ pc' = "fadeconcat"
  /\ UNCHANGED <<serverVars, inputs, engine, pending, probes, trims, effectiveDurations, totalDuration,
                 xfadeVars, finalVars>>

\* "Concatenate all faded segments".
buildFilterGraph_fadeConcat ==
  /\ pc = "fadeconcat"
  /\ filters' = Append(filters, concatNode(fadedVideoLabels, fadedAudioLabels, n))
  /\ pc' = "step3"
  /\ UNCHANGED <<serverVars, inputs, engine, pending, i, probes, trims, effectiveDurations, totalDuration,
                 fadeVars, xfadeVars, finalVars>>

\* transition === 'crossfade' && n > 1: the variables of the loop.
buildFilterGraph_crossfadeInit ==
  /\ pc = "step2"
  /\ variant = "general"
  /\ transition = "crossfade" /\ n > 1
  /\ currentVideoLabel' = Lbl("v", 0)
  /\ currentAudioLabel' = Lbl("a", 0)
  /\ cumulativeOffset' = At(effectiveDurations, 0)
  /\ i' = 1
  /\ pc' = "xfade"
  /\ UNCHANGED <<serverVars, inputs, engine, pending, probes, trims, effectiveDurations, totalDuration,
                 filters, fadeVars, finalVars>>

\* xfadeOffset without the overlap taken off.
xfadeOffset_noOverlap(cum) == Max(0, cum)

xfadeOffset(cum) == Max(0, cum - xfadeDuration)

\* xfadeOutV without the renaming of the last step's output.
xfadeOutV_noRename(k, cnt) == Lbl("xv", k)

\* Output labels of crossfade step k of cnt clips.
xfadeOutV(k, cnt) == IF k = cnt - 1 THEN OUTV ELSE Lbl("xv", k)
\* xfadeOutA without the renaming of the last step's output.
xfadeOutA_noRename(k, cnt) == Lbl("xa", k)

xfadeOutA(k, cnt) == IF k = cnt - 1 THEN OUTA ELSE Lbl("xa", k)

\* One iteration of the crossfade loop.
buildFilterGraph_crossfade ==
  /\ pc = "xfade"
  /\ i < n
  /\ LET offset == xfadeOffset(cumulativeOffset)
         outV == xfadeOutV(i, n)
         outA == xfadeOutA(i, n)
     IN
       /\ filters' = filters \o
            << Node("xfade", i, <<currentVideoLabel, Lbl("v", i)>>, <<outV>>, <<"xfade">>,
                    [transition |-> "fade", duration |-> xfadeDuration, offset |-> offset]),
               Node("acrossfade", i, <<currentAudioLabel, Lbl("a", i)>>, <<outA>>,
                    <<"acrossfade">>, [d |-> xfadeDuration]) >>
       /\ currentVideoLabel' = outV
       /\ currentAudioLabel' = outA
       /\ cumulativeOffset' = offset + At(effectiveDurations, i)
  /\ IF i + 1 < n
     THEN i' = i + 1 /\ pc' = "xfade"
     ELSE i' = 0 /\ pc' = "step3"
  /\ UNCHANGED <<serverVars, inputs, engine, pending, probes, trims, effectiveDurations, totalDuration,
                 fadeVars, finalVars>>

\* "No transition - simple concat": every other transition, and n = 1.
buildFilterGraph_concat ==
  /\ pc = "step2"
  /\ variant = "general"
  /\ ~(transition = "fade" /\ n > 1)
  /\ ~(transition = "crossfade" /\ n > 1)
  /\ filters' = Append(filters,
       concatNode([k \in 1..n |-> Lbl("v", k - 1)], [k \in 1..n |-> Lbl("a", k - 1)], n))
  /\ pc' = "step3"
  /\ UNCHANGED <<serverVars, inputs, engine, pending, i, probes, trims, effectiveDurations, totalDuration,
                 fadeVars, xfadeVars, finalVars>>

\* Step 3 and the final output labels.
buildFilterGraph_watermark ==
  /\ pc = "step3"
  /\ IF HasWatermark(watermark)
     THEN /\ filters' = Append(filters, Drawtext(OUTV, WATERMARKED, watermark))
          /\ finalVideoLabel' = WATERMARKED
     ELSE /\ filters' = filters
          /\ finalVideoLabel' = OUTV
  /\ finalAudioLabel' = OUTA
  /\ pc' = "built"
  /\ UNCHANGED <<serverVars, inputs, engine, pending, i, probes, trims, effectiveDurations, totalDuration,
                 fadeVars, xfadeVars, inputOptions>>

----------------------------------------------------------------------------
(* norm2: mergeVideos(video1Path, video2Path, ...), src/unnamed/part_003    *)

\* sanitizeTrim: null for undefined, null, '' and NaN, else the number.
sanitizeTrim(val) ==
  IF val.kind \in {"undefined", "empty"} THEN [isNull |-> TRUE, num |-> 0]
  ELSE IF ~IsNumeric(val) THEN [isNull |-> TRUE, num |-> 0]
  ELSE [isNull |-> FALSE, num |-> val.num]

\* `sanitizeTrim(settings.trimStartK) || 0`
trimStartOf(v) == LET s == sanitizeTrim(v.trimStart) IN IF s.isNull THEN 0 ELSE s.num

\* effKEnd = trimEndK !== null ? trimEndK : probeK.duration
effEnd(v, probe) ==
  LET e == sanitizeTrim(v.trimEnd) IN IF ~e.isNull THEN e.num ELSE probe.duration

\* needTrimK = effKStart > 0 || (trimEndK !== null && trimEndK < probeK.duration)
needTrim(v, probe) ==
  LET e == sanitizeTrim(v.trimEnd)
  IN  trimStartOf(v) > 0 \/ (~e.isNull /\ e.num < probe.duration)

\* Trim values are sanitised, both clips are probed and the effective trim
\* of each clip is determined.
mergeVideos2_probe ==
  /\ pc = "start"
  /\ variant = "norm2"
  /\ allProbed
  /\ probes' = [k \in 1..n |-> probeVideo(media[k])]
  /\ trims' = [k \in 1..n |->
                 [start |-> trimStartOf(videos[k]),
                  end |-> effEnd(videos[k], probes'[k]),
                  needTrim |-> needTrim(videos[k], probes'[k])]]
  /\ pc' = "clips"
  /\ i' = 0
  /\ UNCHANGED <<serverVars, inputs, engine, pending, effectiveDurations, totalDuration, filters,
                 fadeVars, xfadeVars, finalVars>>

\* The filters after trimming of a norm2 video chain.
videoNorm == <<"scale", "pad", "fps", "format">>

\* AUDIO_NORM = 'aresample=44100,aformat=sample_fmts=fltp:channel_layouts=stereo'
AUDIO_NORM == <<"aresample", "aformat">>

\* "Video K" of the norm2 graph.
video2(k, t) ==
  IF t.needTrim
  THEN Node("video", k, <<InV(k)>>, <<Lbl("v", k)>>, <<"trim", "setpts">> \o videoNorm,
            [start |-> t.start, end |-> t.end])
  ELSE Node("video", k, <<InV(k)>>, <<Lbl("v", k)>>, videoNorm, [fps |-> FPS_NORM])

\* durK = needTrimK ? (effKEnd - effKStart) : probeK.duration
silenceDuration(t, probe) == IF t.needTrim THEN t.end - t.start ELSE probe.duration

\* "Audio K" of the norm2 graph.
audio2(k, t, probe) ==
  IF probe.hasAudio
  THEN IF t.needTrim
       THEN Node("audio", k, <<InA(k)>>, <<Lbl("a", k)>>,
                 <<"atrim", "asetpts">> \o AUDIO_NORM, [start |-> t.start, end |-> t.end])
       ELSE Node("audio", k, <<InA(k)>>, <<Lbl("a", k)>>, AUDIO_NORM,
                 [rate |-> RATE_NORM])
  ELSE Node("aevalsrc", k, <<>>, <<Lbl("a", k)>>, <<"aevalsrc">> \o AUDIO_NORM,
            [d |-> silenceDuration(t, probe), channel_layout |-> "stereo",
             sample_rate |-> RATE_NORM])

\* The video and audio chains of clip 0, then of clip 1.
mergeVideos2_clip ==
  /\ pc = "clips"
  /\ i < n
  /\ filters' = filters \o
       << video2(i, At(trims, i)), audio2(i, At(trims, i), At(probes, i)) >>
  /\ IF i + 1 < n
     THEN i' = i + 1 /\ pc' = "clips"
     ELSE i' = 0 /\ pc' = "concat2"
  /\ UNCHANGED <<serverVars, inputs, engine, pending, probes, trims, effectiveDurations, totalDuration,
                 fadeVars, xfadeVars, finalVars>>

\* `[v0][a0][v1][a1]concat=n=2:v=1:a=1[outv][outa]`
mergeVideos2_concat ==
  /\ pc = "concat2"
  /\ filters' = Append(filters,
       concatNode(<<Lbl("v", 0), Lbl("v", 1)>>, <<Lbl("a", 0), Lbl("a", 1)>>, 2))
  /\ pc' = "watermark2"
  /\ UNCHANGED <<serverVars, inputs, engine, pending, i, probes, trims, effectiveDurations, totalDuration,
                 fadeVars, xfadeVars, finalVars>>

mergeVideos2_watermark ==
  /\ pc = "watermark2"
  /\ IF HasWatermark(watermark)
     THEN /\ filters' = Append(filters, Drawtext(OUTV, OUTV2, watermark))
          /\ finalVideoLabel' = OUTV2
     ELSE /\ filters' = filters
          /\ finalVideoLabel' = OUTV
  /\ finalAudioLabel' = OUTA
  /\ pc' = "built"
  /\ UNCHANGED <<serverVars, inputs, engine, pending, i, probes, trims, effectiveDurations, totalDuration,
                 fadeVars, xfadeVars, inputOptions>>

----------------------------------------------------------------------------
(* legacy: mergeVideos of src/backend/utils/ffmpegHelper.js                *)

legacyScale == <<"scale", "pad", "setsar">>

\* [k:v]scale=...,pad=...,setsar=1[vk], with a fade appended for 'fade'.
legacyVideo(k, tr) ==
  IF tr = "fade"
  THEN Node("video", k, <<InV(k)>>, <<Lbl("v", k)>>, legacyScale \o <<"fade">>,
            [t |-> IF k = 0 THEN "out" ELSE "in", st |-> 0, d |-> fadeDuration])
  ELSE Node("video", k, <<InV(k)>>, <<Lbl("v", k)>>, legacyScale, [sar |-> 1])

\* The chain that joins [v0] and [v1] into [outv].
legacyJoin(tr) ==
  IF tr = "crossfade"
  THEN Node("xfade", 1, <<Lbl("v", 0), Lbl("v", 1)>>, <<OUTV>>, <<"xfade">>,
            [transition |-> "fade", duration |-> xfadeDuration, auto |-> TRUE])
  ELSE Node("concat", -1, <<Lbl("v", 0), Lbl("v", 1)>>, <<OUTV>>, <<"concat">>,
            [n |-> 2, v |-> 1, a |-> 0])

\* "Audio handling": nothing for muteAll.
legacyAudioFilter(ao) ==
  IF ao = "muteAll" THEN <<>>
  ELSE IF ao = "keepFirst"
  THEN << Node("audio", 0, <<InA(0)>>, <<OUTA>>, <<"aresample">>, [rate |-> RATE_NORM]) >>
  ELSE << Node("concat", -1, <<InA(0), InA(1)>>, <<OUTA>>, <<"concat">>,
               [n |-> 2, v |-> 0, a |-> 1]) >>

\* "Build filter graph"
mergeVideosLegacy_filterGraph ==
  /\ pc = "start"
  /\ variant = "legacy"
  /\ filters' = << legacyVideo(0, transition), legacyVideo(1, transition),
                   legacyJoin(transition) >>
  /\ pc' = "audio1"
  /\ UNCHANGED <<serverVars, inputs, engine, pending, i, probes, trims, effectiveDurations, totalDuration,
                 fadeVars, xfadeVars, finalVars>>

mergeVideosLegacy_audioFilter ==
  /\ pc = "audio1"
  /\ filters' = filters \o legacyAudioFilter(audioOption)
  /\ pc' = "watermark1"
  /\ UNCHANGED <<serverVars, inputs, engine, pending, i, probes, trims, effectiveDurations, totalDuration,
                 fadeVars, xfadeVars, finalVars>>

\* -ss for a start that is truthy and not '0', -to for a truthy end.
legacyInputOptions(v) ==
  [ss |-> Truthy(v.trimStart) /\ v.trimStart # Num(0), to |-> Truthy(v.trimEnd)]

\* The watermark, the inputs with their trim options and the output maps.
mergeVideosLegacy_watermark ==
  /\ pc = "watermark1"
  /\ IF HasWatermark(watermark)
     THEN /\ filters' = Append(filters, Drawtext(OUTV, OUTV2, watermark))
          /\ finalVideoLabel' = OUTV2
     ELSE /\ filters' = filters
          /\ finalVideoLabel' = OUTV
  /\ inputOptions' = [k \in 1..n |-> legacyInputOptions(videos[k])]
  /\ finalAudioLabel' = IF audioOption = "muteAll" THEN NoLabel ELSE OUTA
  /\ pc' = "built"
  /\ UNCHANGED <<serverVars, inputs, engine, pending, i, probes, trims, effectiveDurations, totalDuration,
                 fadeVars, xfadeVars>>

----------------------------------------------------------------------------
(* All helpers: the command is configured with the filter graph and the    *)
(* final labels, then started.                                              *)

command_run ==
  /\ pc = "built"
  /\ engine' = "running"
  /\ pc' = "running"
  /\ UNCHANGED <<serverVars, inputs, pending, i, probes, trims, effectiveDurations, totalDuration,
                 filters, fadeVars, xfadeVars, finalVars>>

----------------------------------------------------------------------------
Next ==
  \/ probeVideo_resolve
  \/ probeVideo_reject
  \/ mergeVideos_probe
  \/ mergeVideos_effectiveDurations
  \/ buildFilterGraph_step1
  \/ buildFilterGraph_fade
  \/ buildFilterGraph_fadeConcat
  \/ buildFilterGraph_crossfadeInit
  \/ buildFilterGraph_crossfade
  \/ buildFilterGraph_concat
  \/ buildFilterGraph_watermark
  \/ mergeVideos2_probe
  \/ mergeVideos2_clip
  \/ mergeVideos2_concat
  \/ mergeVideos2_watermark
  \/ mergeVideosLegacy_filterGraph
  \/ mergeVideosLegacy_audioFilter
  \/ mergeVideosLegacy_watermark
  \/ command_run

Spec == Init /\ [][Next]_vars

\* The clip of ClipCases that is merged whole.
WholeClip == CHOOSE c \in ClipCases : c.trimStart = Undef /\ c.trimEnd = Undef

\* Merge calls for the escaping of the watermark: whole clips, joined with
\* no transition, and any watermark text of WatermarkTexts.
InitEscape ==
  /\ variant \in Variants
  /\ LET cnt == IF variant = "general" THEN 1 ELSE 2 IN
       /\ videos = [k \in 1..cnt |-> [trimStart |-> WholeClip.trimStart,
                                      trimEnd |-> WholeClip.trimEnd]]
       /\ media = [k \in 1..cnt |-> [duration |-> WholeClip.duration,
                                     hasAudio |-> WholeClip.hasAudio,
                                     fps |-> WholeClip.fps, rate |-> WholeClip.rate,
                                     pix |-> WholeClip.pix, layout |-> WholeClip.layout]]
  /\ audioOption = "keepAll"
  /\ transition = "none"
  /\ watermark \in WatermarkTexts
  /\ NotStarted
  /\ NoServer

NextEscape ==
  \/ probeVideo_resolve
  \/ probeVideo_reject
  \/ mergeVideos_probe
  \/ mergeVideos_effectiveDurations
  \/ buildFilterGraph_step1
  \/ buildFilterGraph_concat
  \/ buildFilterGraph_watermark
  \/ mergeVideos2_probe
  \/ mergeVideos2_clip
  \/ mergeVideos2_concat
  \/ mergeVideos2_watermark
  \/ mergeVideosLegacy_filterGraph
  \/ mergeVideosLegacy_audioFilter
  \/ mergeVideosLegacy_watermark
  \/ command_run

SpecEscape == InitEscape /\ [][NextEscape]_vars

----------------------------------------------------------------------------
(* What the engine makes of a chain: the parameters of the stream a chain  *)
(* writes.  A filter of the chain that forces a parameter decides it;      *)
(* otherwise the stream keeps the parameter of its source, the input file  *)
(* or aevalsrc (44100 Hz, and one channel for the single expression `0`,   *)
(* unless channel_layout is given).                                        *)

videoParams(nd) ==
  [ canvas |-> Has(nd.chain, "scale") /\ Has(nd.chain, "pad"),
    fps |-> IF Has(nd.chain, "fps") THEN FPS_NORM ELSE At(media, nd.clip).fps,
    pix |-> IF Has(nd.chain, "format") THEN "yuv420p" ELSE At(media, nd.clip).pix ]

audioParams(nd) ==
  [ rate |-> IF Has(nd.chain, "aresample") \/ nd.op = "aevalsrc" THEN RATE_NORM
             ELSE At(media, nd.clip).rate,
    fmt |-> IF Has(nd.chain, "aformat") THEN "fltp"
            ELSE IF nd.op = "aevalsrc" THEN "dbl" ELSE "native",
    layout |-> IF Has(nd.chain, "aformat") THEN "stereo"
               ELSE IF nd.op = "aevalsrc"
                    THEN (IF "channel_layout" \in DOMAIN nd.p THEN nd.p.channel_layout
                          ELSE "mono")
               ELSE At(media, nd.clip).layout ]

Nodes == {filters[k] : k \in 1..Len(filters)}
\* The chains that write v{k} and a{k}.
VideoOutputs == {nd \in Nodes : nd.outs[1][1] = "v"}
AudioOutputs == {nd \in Nodes : nd.outs[1][1] = "a"}
HasTrim(nd) == Has(nd.chain, "trim") \/ Has(nd.chain, "atrim")

----------------------------------------------------------------------------
(* Claims                                                                  *)

\* C1: after the per-clip step every video output v{i} has the same canvas,
\* frame rate and pixel format, and every audio output a{i} the same sample
\* rate, sample format and channel layout, be it real, trimmed or silence.
\* (norm2 keeps this; buildFilterGraph of the general helper does not.)
C1_UniformStreams ==
  variant \in {"general", "norm2"} =>
    /\ \A x \in VideoOutputs : videoParams(x).canvas
    /\ \A x, y \in VideoOutputs : videoParams(x) = videoParams(y)
    /\ \A x, y \in AudioOutputs : audioParams(x) = audioParams(y)

\* A label is read only after a chain wrote it, unless it is a raw stream of
\* one of the n inputs.
ReadsAreWritten ==
  \A k \in 1..Len(filters) : \A r \in 1..Len(filters[k].ins) :
    LET l == filters[k].ins[r] IN
      \/ IsRaw(l) /\ l[2] \in 0..(n - 1)
      \/ \E j \in 1..(k - 1) : \E w \in 1..Len(filters[j].outs) : filters[j].outs[w] = l

Written(l) == \E nd \in Nodes : \E w \in 1..Len(nd.outs) : nd.outs[w] = l

\* C2: in the plan, at every point of its construction, each label a chain
\* reads is a raw input stream or was written by an earlier chain, and the
\* final video and audio labels mapped to the output are written by a chain.
C2_ClosedPlan ==
  /\ ReadsAreWritten
  /\ pc = "built" =>
       /\ Written(finalVideoLabel)
       /\ finalAudioLabel # NoLabel => Written(finalAudioLabel)

\* C2 witness: a finished three-clip crossfade plan with a watermark.
C2_Witness ==
  /\ pc = "built" /\ variant = "general" /\ n = 3
  /\ transition = "crossfade" /\ HasWatermark(watermark)

\* C3: no trim of zero or negative length, no silence source of zero or
\* negative duration and no effective duration <= 0 is ever emitted: a clip
\* whose interval has end <= start is rejected instead.
C3_NoDegenerateSegment ==
  /\ \A nd \in Nodes : HasTrim(nd) => nd.p.end > nd.p.start
  /\ \A nd \in Nodes : nd.op = "aevalsrc" => nd.p.d > 0
  /\ \A k \in 1..Len(effectiveDurations) : effectiveDurations[k] > 0

\* C4: the end used in a clip's trim chains and in the duration of its
\* silence never exceeds the probed duration.
C4_EndClamped ==
  /\ \A nd \in Nodes : HasTrim(nd) => nd.p.end <= At(probes, nd.clip).duration
  /\ \A nd \in Nodes : nd.op = "aevalsrc" =>
       nd.p.d + parseFloatOr(At(videos, nd.clip).trimStart, 0)
         <= At(probes, nd.clip).duration

JoinOps == {"concat", "xfade", "acrossfade"}
JoinNodes == {k \in 1..Len(filters) : filters[k].op \in JoinOps}
FadeNodes == {k \in 1..Len(filters) : filters[k].op \in {"fade", "afade"}}

\* C5 as stated: for a single clip no join chain is emitted and the final
\* labels are the clip's own v0 and a0.
C5_SingleClipPassThrough ==
  (variant = "general" /\ n = 1 /\ pc = "built") =>
    /\ JoinNodes = {}
    /\ finalAudioLabel = Lbl("a", 0)
    /\ ~HasWatermark(watermark) => finalVideoLabel = Lbl("v", 0)

\* C5 amended: for a single clip, whatever the transition, the joiner emits
\* exactly one chain, concat=n=1:v=1:a=1 reading [v0][a0] and writing
\* [outv][outa], and no fade or crossfade chain; the final audio label is
\* outa and the final video label outv (watermarked with a watermark).
C5_SingleClipConcat ==
  (variant = "general" /\ n = 1 /\ pc \in {"step3", "built"}) =>
    /\ Cardinality(JoinNodes) = 1
    /\ FadeNodes = {}
    /\ \A k \in JoinNodes :
         /\ filters[k].op = "concat"
         /\ filters[k].ins = <<Lbl("v", 0), Lbl("a", 0)>>
         /\ filters[k].outs = <<OUTV, OUTA>>
         /\ filters[k].p.n = 1
    /\ pc = "built" =>
         /\ finalAudioLabel = OUTA
         /\ finalVideoLabel = IF HasWatermark(watermark) THEN WATERMARKED ELSE OUTV

\* C5 witness: a finished single-clip plan of a request that asked for a
\* crossfade.
C5_Witness ==
  variant = "general" /\ n = 1 /\ pc = "built" /\ transition = "crossfade"

InCrossfade == variant = "general" /\ transition = "crossfade" /\ n > 1
AfterJoin == pc \in {"step3", "built"}

\* The timeline of the crossfade strategy as the specification gives it:
\* cum_0 is the first duration, offset_k = max(0, cum_{k-1} - X) and
\* cum_k = offset_k + duration_k.
RECURSIVE TimelineCum(_, _)
TimelineCum(durs, k) ==
  IF k = 0 THEN durs[1]
  ELSE Max(0, TimelineCum(durs, k - 1) - xfadeDuration) + durs[k + 1]
TimelineOffset(durs, k) == Max(0, TimelineCum(durs, k - 1) - xfadeDuration)

\* C6: in every crossfade step the video blend and the audio crossfade are
\* both anchored at offset_i = max(0, cum_{i-1} - X).
C6_BothAnchoredAtOffset ==
  \A k \in 1..Len(filters) :
    filters[k].op = "xfade" =>
      /\ "offset" \in DOMAIN filters[k].p
      /\ filters[k].p.offset = TimelineOffset(effectiveDurations, filters[k].clip)
      /\ \E j \in 1..Len(filters) :
           /\ filters[j].op = "acrossfade"
           /\ filters[j].clip = filters[k].clip
           /\ "offset" \in DOMAIN filters[j].p
           /\ filters[j].p.offset = filters[k].p.offset

\* C7 as stated: the final cumulative offset of a crossfade plan is the sum
\* of the effective durations less (n-1)*X, and it is the total the
\* progress is computed against.
C7_TotalIsSumMinusOverlap ==
  (InCrossfade /\ AfterJoin) =>
    /\ cumulativeOffset = Sum(effectiveDurations) - (n - 1) * xfadeDuration
    /\ totalDuration = cumulativeOffset

\* The first k effective durations.
FirstDurations(k) == SubSeq(effectiveDurations, 1, k)

\* No step of the crossfade loop clamps its offset at 0: before step k the
\* running timeline is at least X long.
NoClamp ==
  \A k \in 1..(n - 1) : Sum(FirstDurations(k)) - (k - 1) * xfadeDuration >= xfadeDuration

\* C7 amended: the final cumulative offset of a crossfade plan is at least
\* the sum of the effective durations less (n-1)*X, and equal to it when
\* no step clamps its offset at 0 (in particular when every effective
\* duration is at least X); the total the progress is computed against is
\* the plain sum of the effective durations.
C7_TotalAtLeastSumMinusOverlap ==
  (InCrossfade /\ AfterJoin) =>
    /\ cumulativeOffset >= Sum(effectiveDurations) - (n - 1) * xfadeDuration
    /\ NoClamp => cumulativeOffset = Sum(effectiveDurations) - (n - 1) * xfadeDuration
    /\ totalDuration = Sum(effectiveDurations)

\* C7 witness: a finished crossfade of three clips none of whose steps
\* clamps.
C7_Witness == InCrossfade /\ pc = "built" /\ n = 3 /\ NoClamp

StepsOf(op) == {k \in 1..Len(filters) : filters[k].op = op}

\* Step `step` of the crossfade loop, on the video (op "xfade", base "v")
\* or audio (op "acrossfade", base "a") side: one chain, reading the output
\* of the step before (clip 0's label for step 1) and clip `step`'s label.
CrossfadeStepOk(op, base, step) ==
  \E k \in StepsOf(op) :
    /\ filters[k].clip = step
    /\ Len(filters[k].ins) = 2
    /\ filters[k].ins[2] = Lbl(base, step)
    /\ IF step = 1
       THEN filters[k].ins[1] = Lbl(base, 0)
       ELSE \E j \in StepsOf(op) :
              /\ j < k
              /\ filters[j].clip = step - 1
              /\ filters[j].outs = <<filters[k].ins[1]>>
    /\ step = n - 1 => filters[k].outs = <<IF base = "v" THEN OUTV ELSE OUTA>>

\* C8: a crossfade plan of n > 1 clips has exactly n-1 blend steps; step 1
\* reads clip 0's pair and clip 1's pair, step i > 1 the output pair of
\* step i-1 and clip i's pair, and step n-1 writes outv and outa.
C8_CrossfadeChain ==
  (InCrossfade /\ AfterJoin) =>
    /\ Cardinality(StepsOf("xfade")) = n - 1
    /\ Cardinality(StepsOf("acrossfade")) = n - 1
    /\ StepsOf("concat") = {}
    /\ \A step \in 1..(n - 1) :
         CrossfadeStepOk("xfade", "v", step) /\ CrossfadeStepOk("acrossfade", "a", step)

\* C8 witness: the crossfade loop over three clips has just ended.
C8_Witness == InCrossfade /\ pc = "step3" /\ n = 3

\* The kinds of fade ("in", "out") applied to clip k by filter f.
FadeKinds(f, k) == {nd.p.t : nd \in {x \in Nodes : Has(x.chain, f) /\ x.clip = k}}
ExpectedFades(k) ==
  (IF k > 0 THEN {"in"} ELSE {}) \cup (IF k < n - 1 THEN {"out"} ELSE {})

\* C9: a fade plan of n > 1 clips fades clip 0 out only, clip n-1 in only
\* and every interior clip both ways, on video and audio alike, then joins
\* all n pairs in clip order by one concat; the total duration is the sum
\* of the effective durations.
C9_FadePlan ==
  (variant \in {"general", "legacy"} /\ transition = "fade" /\ n > 1 /\ pc = "built") =>
    /\ \A k \in 0..(n - 1) :
         FadeKinds("fade", k) = ExpectedFades(k) /\ FadeKinds("afade", k) = ExpectedFades(k)
    /\ Cardinality(StepsOf("concat")) = 1
    /\ \A c \in StepsOf("concat") :
         /\ filters[c].p.n = n /\ filters[c].p.v = 1 /\ filters[c].p.a = 1
         /\ Len(filters[c].ins) = 2 * n
         /\ \A k \in 1..n :
              /\ filters[c].ins[2 * k - 1][1] \in {"v", "vfin", "vfout"}
              /\ filters[c].ins[2 * k - 1][2] = k - 1
              /\ filters[c].ins[2 * k][1] \in {"a", "afin", "afout"}
              /\ filters[c].ins[2 * k][2] = k - 1
    /\ variant = "general" => totalDuration = Sum(effectiveDurations)

\* The duration clip k plays for: its effective duration, which for a
\* helper that computes none is the file's duration when nothing is trimmed.
PlayedDuration(k) ==
  IF variant = "general" THEN At(effectiveDurations, k) ELSE At(media, k).duration
Untrimmed(k) == ~Truthy(At(videos, k).trimStart) /\ ~Truthy(At(videos, k).trimEnd)

\* C10: every fade-out starts at max(0, effectiveDuration - F), so that it
\* ends at the clip's end when the clip lasts at least F.
C10_FadeOutStart ==
  \A nd \in Nodes :
    ( /\ Has(nd.chain, "fade") \/ Has(nd.chain, "afade")
      /\ nd.p.t = "out"
      /\ variant = "general" \/ Untrimmed(nd.clip) ) =>
        nd.p.st = Max(0, PlayedDuration(nd.clip) - fadeDuration)

----------------------------------------------------------------------------
(* The plain join, the audio policy and the trim of every clip.            *)

\* The plain join has been pushed: transition 'none' of buildFilterGraph,
\* and every call of the two-clip normalising helper, which has no other join.
PlainJoinDone ==
  \/ variant = "general" /\ transition = "none" /\ pc \in {"step3", "built"}
  \/ variant = "norm2" /\ pc \in {"watermark2", "built"}

\* C11: with no transition the plan holds exactly one concat chain; it reads
\* v0, a0, v1, a1, ..., v{n-1}, a{n-1} in clip order, declares n pairs, writes
\* outv and outa, no fade or crossfade chain exists, and the total duration
\* the call computes is the sum of the clips' effective durations.
C11_PlainConcat ==
  PlainJoinDone =>
    /\ Cardinality(JoinNodes) = 1
    /\ FadeNodes = {}
    /\ \A c \in JoinNodes :
         /\ filters[c].op = "concat"
         /\ filters[c].p = [n |-> n, v |-> 1, a |-> 1]
         /\ filters[c].outs = <<OUTV, OUTA>>
         /\ Len(filters[c].ins) = 2 * n
         /\ \A k \in 1..n :
              /\ filters[c].ins[2 * k - 1] = Lbl("v", k - 1)
              /\ filters[c].ins[2 * k] = Lbl("a", k - 1)
    /\ variant = "general" =>
         totalDuration = Sum([k \in 1..n |->
                                effectiveDuration(videos[k], probes[k])])

C11_Witness ==
  /\ variant = "general" /\ transition = "none" /\ n = 3 /\ pc = "built"
  /\ \E c \in JoinNodes : filters[c].ins[5] = Lbl("v", 2)
  /\ totalDuration > 0

\* The chains that write a{k}, and whether some chain reads a{k}.
AudioChains(k) == {nd \in Nodes : nd.outs = <<Lbl("a", k)>>}
IsRead(l) == \E nd \in Nodes : \E j \in 1..Len(nd.ins) : nd.ins[j] = l

\* C12: with muteAll every clip's a{k} is silence whatever the probe says;
\* with keepFirst every clip but clip 0 is silence and clip 0 keeps its own
\* audio when it has some; either way every clip has one audio stream a{k},
\* which the join reads along with v{k}.
C12_AudioPolicy ==
  (pc = "built" /\ audioOption \in {"muteAll", "keepFirst"}) =>
    \A k \in 0..(n - 1) :
      /\ Cardinality(AudioChains(k)) = 1
      /\ IsRead(Lbl("a", k)) /\ IsRead(Lbl("v", k))
      /\ \A nd \in AudioChains(k) :
           /\ (audioOption = "muteAll" \/ k > 0) => nd.op = "aevalsrc"
           /\ (audioOption = "keepFirst" /\ k = 0 /\ At(media, 0).hasAudio) =>
                (nd.op = "audio" /\ nd.ins = <<InA(0)>>)

\* The trim a request resolves to, as the claims word it: an absent, empty
\* or non-numeric start counts as 0 and a negative one is raised to 0; an
\* absent, empty, non-numeric or non-positive end counts as the probed
\* duration and a larger one is lowered to it.
RequestedStart(v) == IF IsNumeric(v.trimStart) THEN v.trimStart.num ELSE 0
ResolvedStart(v) == Max(0, RequestedStart(v))
ResolvedEnd(v, duration) ==
  Min(IF IsNumeric(v.trimEnd) /\ v.trimEnd.num > 0 THEN v.trimEnd.num ELSE duration,
      duration)
NeedsTrim(v, duration) == ResolvedStart(v) > 0 \/ ResolvedEnd(v, duration) < duration

\* C13: the silence synthesized for a clip lasts as long as the clip's
\* video: end - start when the clip needs a trim, with the end clamped to
\* the probed duration, and the probed duration otherwise.
C13_SilenceDuration ==
  \A nd \in Nodes :
    nd.op = "aevalsrc" =>
      LET v == At(videos, nd.clip)
          duration == At(media, nd.clip).duration
      IN  nd.p.d = IF NeedsTrim(v, duration)
                   THEN ResolvedEnd(v, duration) - ResolvedStart(v)
                   ELSE duration

\* The video chain and the own-audio chain of a clip, in the helpers that
\* trim inside the filter graph.
ClipChains == {nd \in Nodes : nd.op \in {"video", "audio"} /\ nd.outs[1][1] \in {"v", "a"}}
StartsWithTrim(nd) == nd.chain[1] \in {"trim", "atrim"}

\* C14: a clip's video chain and its own-audio chain start with a trim to
\* [start, end) exactly when the clip needs a trim, that is when the resolved
\* start is above 0 or the resolved end is below the probed duration.
C14_TrimIffNeeded ==
  /\ variant \in {"general", "norm2"} =>
       \A nd \in ClipChains :
         StartsWithTrim(nd) <=>
           NeedsTrim(At(videos, nd.clip), At(media, nd.clip).duration)
  /\ \A k \in 1..Len(trims) :
       trims[k].needTrim <=> NeedsTrim(videos[k], media[k].duration)

\* The start and end the code resolved for a clip: the effective trim of the
\* two-clip helper, and in buildFilterGraph the interval of the video chain.
CodeTrims ==
  { [clip |-> k - 1, start |-> trims[k].start, end |-> trims[k].end] : k \in 1..Len(trims) }
  \cup { [clip |-> nd.clip, start |-> nd.p.start, end |-> nd.p.end] :
           nd \in {x \in Nodes : variant = "general" /\ x.op = "video"} }

AbsentValue(val) == ~IsNumeric(val)

\* C15: a missing, empty or non-numeric requested start resolves to 0; a
\* missing, empty, non-numeric or non-positive requested end resolves to the
\* probed duration; with both missing nothing is trimmed.
C15_AbsentTrimDefaults ==
  /\ \A t \in CodeTrims :
       LET v == At(videos, t.clip)
           duration == At(media, t.clip).duration
       IN  /\ AbsentValue(v.trimStart) => t.start = 0
           /\ (AbsentValue(v.trimEnd) \/ v.trimEnd.num <= 0) => t.end = duration
  /\ \A k \in 1..Len(trims) :
       (videos[k].trimStart = Undef /\ videos[k].trimEnd = Undef) =>
          trims[k] = [start |-> 0, end |-> media[k].duration, needTrim |-> FALSE]

\* C16: the start a clip resolves to is max(0, requested start), so that no
\* trim chain, no effective duration and no silence duration is computed
\* from a negative start.
C16_StartClamped ==
  /\ \A t \in CodeTrims : t.start = ResolvedStart(At(videos, t.clip))
  /\ \A nd \in Nodes : HasTrim(nd) => nd.p.start >= 0
  /\ \A k \in 1..Len(effectiveDurations) :
       effectiveDurations[k] =
         Min(parseFloatOr(videos[k].trimEnd, media[k].duration), media[k].duration)
           - ResolvedStart(videos[k])
  /\ \A nd \in Nodes :
       (nd.op = "aevalsrc" /\ variant = "norm2") =>
          nd.p.d = silenceDuration([At(trims, nd.clip) EXCEPT
                                      !.start = ResolvedStart(At(videos, nd.clip))],
                                   At(probes, nd.clip))

----------------------------------------------------------------------------
(* The watermark.                                                          *)

\* The texts embedded in the drawtext chains of the plan.
EmbeddedTexts == {nd.p.text : nd \in {x \in Nodes : x.op = "drawtext"}}
IsSpecial(ch) == ch \in {"'", ":"}
\* How many quotes and field separators a text holds.
Specials(str) == Cardinality({k \in 1..Len(str) : IsSpecial(str[k])})

\* C17 as stated: escaping the embedded, already escaped text once more
\* gives the same text.
C17_EscapeIdempotent ==
  \A t \in EmbeddedTexts : safeText(t) = t

\* C17: escaping the embedded text once more gives the same text exactly
\* when the watermark holds no quote and no field separator; in general the
\* second escaping adds one more backslash for each of them.
C17_EscapeIdempotentOnPlain ==
  \A t \in EmbeddedTexts :
    /\ (safeText(t) = t) <=> (Specials(watermark) = 0)
    /\ Len(safeText(t)) = Len(t) + Specials(watermark)

C17_Witness ==
  /\ pc = "built" /\ watermark = <<"\\", "'", ":">>
  /\ \E t \in EmbeddedTexts : Len(safeText(t)) = Len(t) + 2

\* The backslashes directly before position k + 1 of a text.
RECURSIVE BackslashRun(_, _)
BackslashRun(t, k) ==
  IF k >= 1 /\ t[k] = "\\" THEN 1 + BackslashRun(t, k - 1) ELSE 0

\* C18: in the embedded text every quote and every field separator stands
\* after an odd number of backslashes, whatever the watermark, backslashes
\* included, so that none of them ends the quoted text or starts a field.
C18_NoUnescapedSpecial ==
  \A t \in EmbeddedTexts : \A k \in 1..Len(t) :
    IsSpecial(t[k]) => BackslashRun(t, k - 1) % 2 = 1

\* The plan is complete, in the helpers with a joined audio stream.
PlanBuilt == pc = "built" /\ variant \in {"general", "norm2"}
\* The last chain of the plan is the only drawtext chain; it reads the
\* joined video and the final video label is what it writes.
EndsWithOverlay ==
  /\ StepsOf("drawtext") = {Len(filters)}
  /\ filters[Len(filters)].ins = <<OUTV>>
  /\ filters[Len(filters)].outs = <<finalVideoLabel>>
  /\ finalVideoLabel # OUTV
NoOverlay == StepsOf("drawtext") = {} /\ finalVideoLabel = OUTV

\* C19 as stated: a non-empty watermark gives a plan that ends with exactly
\* one overlay chain on the joined video, whose output is the final video
\* label; without one the final video label is the joined video; the final
\* audio label is the joined audio either way.
C19_OverlayIffNonEmpty ==
  PlanBuilt =>
    /\ IF watermark # <<>> THEN EndsWithOverlay ELSE NoOverlay
    /\ finalAudioLabel = OUTA

\* A text that is empty once trimmed.
Blank(wm) == \A k \in 1..Len(wm) : wm[k] = " "

\* C19: the step after the join appends exactly one overlay chain, reading
\* the joined video and writing the final video label, when the watermark is
\* not blank (not empty once trimmed), and nothing otherwise, the final video
\* label then being the joined video; either way every chain pushed before,
\* the audio chains among them, stays as it is and the final audio label is
\* the joined audio, as for the request without a watermark.
C19_OverlayIffNotBlank ==
  [][ (pc \in {"step3", "watermark2"}) =>
        /\ StepsOf("drawtext") = {}
        /\ IF ~Blank(watermark)
           THEN /\ Len(filters') = Len(filters) + 1
                /\ SubSeq(filters', 1, Len(filters)) = filters
                /\ filters'[Len(filters')].op = "drawtext"
                /\ filters'[Len(filters')].ins = <<OUTV>>
                /\ filters'[Len(filters')].outs = <<finalVideoLabel'>>
                /\ ~Written(finalVideoLabel')
           ELSE /\ filters' = filters
                /\ finalVideoLabel' = OUTV
        /\ finalAudioLabel' = OUTA
        /\ Written(OUTV) /\ Written(OUTA)
        /\ pc' = "built" ]_vars

C19_Witness ==
  /\ PlanBuilt /\ variant = "general" /\ ~Blank(watermark)
  /\ EndsWithOverlay /\ finalVideoLabel = WATERMARKED /\ finalAudioLabel = OUTA

----------------------------------------------------------------------------
(* Probing.                                                                *)

\* Something of the plan exists: a resolved trim, an effective duration, a
\* chain, or the running command.
PlanBegun ==
  \/ trims # <<>> \/ effectiveDurations # <<>> \/ filters # <<>>
  \/ engine = "running"

\* C20: once the probe of a clip has failed the call is rejected and stays
\* so, no chain is built and the command is never started, also when the
\* other probes finish later; in the helpers that probe, trims are resolved,
\* chains built and the command started only after every clip's probe has
\* resolved.
C20_ProbeFailureAborts ==
  /\ [](pc = "rejected" =>
          probes = <<>> /\ ~PlanBegun /\ finalVideoLabel = NoLabel)
  /\ []((variant \in {"general", "norm2"} /\ PlanBegun) =>
          (pending = 0 /\ pc # "rejected" /\ Len(probes) = n))
  /\ [][pc = "rejected" => pc' = "rejected"]_vars

C20_Witness == pc = "rejected" /\ n = 3 /\ pending = 0

----------------------------------------------------------------------------
(* Progress of the engine, src/unnamed/part_000 'progress' handler.        *)

\* The JS value NaN, kept apart from every number the model computes.
NaN == -1000
IsNaN(x) == x = NaN

\* Math.min(Math.round((currentSeconds / totalDuration) * 100), 99):
\* Math.round rounds to the nearest integer, halves upwards; x / 0 is
\* Infinity for x > 0 and NaN for x = 0, and Math.min of NaN is NaN.
percentOf(cur, total) ==
  IF total = 0 THEN (IF cur = 0 THEN NaN ELSE 99)
  ELSE LET num == IF total > 0 THEN 200 * cur + total ELSE -(200 * cur + total)
           den == IF total > 0 THEN 2 * total ELSE -(2 * total)
       IN  Min(num \div den, 99)

\* Short clips for the runs of the engine: the clips of ClipCases of at most
\* 1.5 s, a clip trimmed to nothing, from 1 s to 1 s, and a clip of 1.5 s
\* whose start is at 2 s.
ProgressClips ==
  {c \in ClipCases : c.duration <= 3}
  \cup { [trimStart |-> Num(2), trimEnd |-> Num(2), duration |-> 3, hasAudio |-> TRUE,
          fps |-> 30, rate |-> 44100, pix |-> "yuv420p", layout |-> "stereo"],
        [trimStart |-> Num(4), trimEnd |-> Undef, duration |-> 3, hasAudio |-> TRUE,
          fps |-> 30, rate |-> 44100, pix |-> "yuv420p", layout |-> "stereo"] }

\* Percentages onProgress is called with for a request of two clips: those
\* of the time marks 0 s and 0.5 s for the totals of up to 1 s.
TwoClipTotals ==
  {effectiveDuration(c, c) + effectiveDuration(d, d) : c \in ProgressClips, d \in ProgressClips}
OnProgressValues ==
  {percentOf(cur, total) : cur \in 0..1, total \in {t \in TwoClipTotals : 0 <= t /\ t <= 2}}

\* command.on('progress'): the engine reports a time mark, never earlier
\* than the one before, and the helper hands its percentage to onProgress.
command_progress ==
  /\ variant = "general"
  /\ engine = "running"
  /\ Len(delivered) <= MaxMark
  /\ \E t \in timemark..MaxMark :
       /\ timemark' = t
       /\ delivered' = Append(delivered, percentOf(t, totalDuration))
  /\ UNCHANGED <<notProgressVars, helperVars>>

\* command.on('end'): onProgress(100), then the call resolves.
command_end ==
  /\ variant = "general"
  /\ engine = "running"
  /\ engine' = "ended"
  /\ pc' = "resolved"
  /\ delivered' = Append(delivered, 100)
  /\ UNCHANGED <<notProgressVars, timemark, inputs, pending, i, probes, trims,
                 effectiveDurations, totalDuration, filters, fadeVars, xfadeVars, finalVars>>

\* command.on('error'): the call rejects.
command_error ==
  /\ variant = "general"
  /\ engine = "running"
  /\ engine' = "failed"
  /\ pc' = "rejected"
  /\ UNCHANGED <<notProgressVars, progressVars, inputs, pending, i, probes, trims,
                 effectiveDurations, totalDuration, filters, fadeVars, xfadeVars, finalVars>>

\* mergeVideos(options) of two clips of ProgressClips, joined as they are.
InitProgress ==
  /\ variant = "general"
  /\ \E cs \in [1..2 -> ProgressClips] :
       /\ videos = [k \in 1..2 |-> [trimStart |-> cs[k].trimStart,
                                    trimEnd |-> cs[k].trimEnd]]
       /\ media = [k \in 1..2 |-> [duration |-> cs[k].duration,
                                   hasAudio |-> cs[k].hasAudio,
                                   fps |-> cs[k].fps, rate |-> cs[k].rate,
                                   pix |-> cs[k].pix, layout |-> cs[k].layout]]
  /\ audioOption = "keepAll"
  /\ transition = "none"
  /\ watermark = <<>>
  /\ NotStarted
  /\ NoServer

NextProgress ==
  \/ probeVideo_resolve
  \/ probeVideo_reject
  \/ mergeVideos_probe
  \/ mergeVideos_effectiveDurations
  \/ buildFilterGraph_step1
  \/ buildFilterGraph_concat
  \/ buildFilterGraph_watermark
  \/ command_run
  \/ command_progress
  \/ command_end
  \/ command_error

SpecProgress == InitProgress /\ [][NextProgress]_vars

InRange(x) == ~IsNaN(x) /\ 0 <= x /\ x <= 100
NotBelow(x, y) == ~IsNaN(x) /\ ~IsNaN(y) /\ x >= y

\* C22 as stated: the percentages handed to onProgress during one merge
\* never decrease and each of them lies in 0..100.
C22_ProgressMonotone ==
  /\ \A k \in 1..Len(delivered) : InRange(delivered[k])
  /\ \A k \in 2..Len(delivered) : NotBelow(delivered[k], delivered[k - 1])

----------------------------------------------------------------------------
(* The merge controller with the job store, src/unnamed/part_005.          *)

\* The uploaded files the request names and the output file of its job.
Uploads == {"upload0", "upload1"}
Output == "output"

Job(status, progress, error) == [status |-> status, progress |-> progress, error |-> error]

\* `const job = jobs.get(jobId); if (job) job.<field> = ...`
setJob(store, status, progress, error) ==
  IF store = <<>> THEN store ELSE <<Job(status, progress, error)>>

\* videos missing, not an array or not of length 2: 400.
startMerge_badCount ==
  /\ mergeRes = "none"
  /\ body # 2
  /\ mergeRes' = "400 exactly 2 videos"
  /\ UNCHANGED <<notJobVars, body, jobs, merge, disk, sse, interval, frames, reqClosed,
                 cleanupRes>>

\* A referenced file does not exist: 400.
startMerge_notFound ==
  /\ mergeRes = "none"
  /\ body = 2
  /\ ~(Uploads \subseteq disk)
  /\ mergeRes' = "400 file not found"
  /\ UNCHANGED <<notJobVars, body, jobs, merge, disk, sse, interval, frames, reqClosed,
                 cleanupRes>>

\* The job is registered, the request answered and mergeVideos called; it
\* issues its probes.
startMerge_accept ==
  /\ mergeRes = "none"
  /\ body = 2
  /\ Uploads \subseteq disk
  /\ jobs' = <<Job("processing", 0, "none")>>
  /\ mergeRes' = "200 merge started"
  /\ merge' = "probing"
  /\ UNCHANGED <<notJobVars, body, disk, sse, interval, frames, reqClosed, cleanupRes>>

\* The .catch callback of the background merge.
onRejected(store) ==
  IF store = <<>> THEN store ELSE <<Job("failed", store[1].progress, "message")>>

\* A probe fails: mergeVideos rejects.
merge_probeFailed ==
  /\ merge = "probing"
  /\ merge' = "failed"
  /\ jobs' = onRejected(jobs)
  /\ UNCHANGED <<notJobVars, body, mergeRes, disk, sse, interval, frames, reqClosed,
                 cleanupRes>>

\* The probes resolve, the plan is built and the command started: ffmpeg is
\* spawned.
merge_run ==
  /\ merge = "probing"
  /\ merge' = "spawned"
  /\ UNCHANGED <<notJobVars, body, mergeRes, jobs, disk, sse, interval, frames,
                 reqClosed, cleanupRes>>

\* ffmpeg opens its input files.
ffmpeg_openInputs ==
  /\ merge = "spawned"
  /\ Uploads \subseteq disk
  /\ merge' = "opened"
  /\ UNCHANGED <<notJobVars, body, mergeRes, jobs, disk, sse, interval, frames,
                 reqClosed, cleanupRes>>

\* ffmpeg creates the output file and starts to encode.
ffmpeg_createOutput ==
  /\ merge = "opened"
  /\ disk' = disk \cup {Output}
  /\ merge' = "encoding"
  /\ UNCHANGED <<notJobVars, body, mergeRes, jobs, sse, interval, frames, reqClosed,
                 cleanupRes>>

\* 'progress': onProgress(percent) sets job.progress.
ffmpeg_progress ==
  /\ merge = "encoding"
  /\ \E percent \in OnProgressValues :
       jobs' = IF jobs = <<>> THEN jobs
               ELSE <<Job(jobs[1].status, percent, jobs[1].error)>>
  /\ UNCHANGED <<notJobVars, body, mergeRes, merge, disk, sse, interval, frames,
                 reqClosed, cleanupRes>>

\* 'end': onProgress(100), the promise resolves and its .then callback marks
\* the job completed before any other callback runs.
ffmpeg_end ==
  /\ merge = "encoding"
  /\ merge' = "ended"
  /\ jobs' = setJob(jobs, "completed", 100, "none")
  /\ UNCHANGED <<notJobVars, body, mergeRes, disk, sse, interval, frames, reqClosed,
                 cleanupRes>>

\* 'error': the promise rejects and its .catch callback marks the job failed.
ffmpeg_error ==
  /\ merge \in {"spawned", "opened", "encoding"}
  /\ merge' = "failed"
  /\ jobs' = onRejected(jobs)
  /\ UNCHANGED <<notJobVars, body, mergeRes, disk, sse, interval, frames, reqClosed,
                 cleanupRes>>

\* GET /progress/:id for an id the store does not hold: 404.
streamProgress_notFound ==
  /\ sse = "none"
  /\ jobs = <<>>
  /\ sse' = "404"
  /\ UNCHANGED <<notJobVars, body, mergeRes, jobs, merge, disk, interval, frames,
                 reqClosed, cleanupRes>>

\* GET /progress/:id: the headers are written and the timer is set.
streamProgress_open ==
  /\ sse = "none"
  /\ jobs # <<>>
  /\ sse' = "open"
  /\ interval' = "on"
  /\ UNCHANGED <<notJobVars, body, mergeRes, jobs, merge, disk, frames, reqClosed,
                 cleanupRes>>

\* A stream that stops on completed jobs only.
Finished_completedOnly(job) == job.status = "completed"

Finished(job) == job.status \in {"completed", "failed"}

\* The callback of setInterval, every 500 ms.
interval_tick ==
  /\ interval = "on"
  /\ IF jobs = <<>> THEN TRUE
     ELSE IF Finished(jobs[1]) THEN TRUE ELSE Len(frames) < MaxFrames
  /\ IF jobs = <<>>
     THEN /\ interval' = "cleared"
          /\ sse' = "ended"
          /\ frames' = frames
     ELSE /\ frames' = Append(frames, jobs[1])
          /\ IF Finished(jobs[1])
             THEN interval' = "cleared" /\ sse' = "ended"
             ELSE interval' = interval /\ sse' = sse
  /\ UNCHANGED <<notJobVars, body, mergeRes, jobs, merge, disk, reqClosed, cleanupRes>>

\* req.on('close'): the client is gone, clearInterval.
req_close ==
  /\ sse \in {"open", "ended"}
  /\ ~reqClosed
  /\ reqClosed' = TRUE
  /\ interval' = "cleared"
  /\ UNCHANGED <<notJobVars, body, mergeRes, jobs, merge, disk, sse, frames, cleanupRes>>

\* DELETE /cleanup/:id for an id the store does not hold: 404.
cleanup_notFound ==
  /\ cleanupRes = "none"
  /\ jobs = <<>>
  /\ cleanupRes' = "404"
  /\ UNCHANGED <<notJobVars, body, mergeRes, jobs, merge, disk, sse, interval, frames,
                 reqClosed>>

\* DELETE /cleanup/:id: the output file and the uploaded files that exist
\* are unlinked and the job is deleted.
cleanup ==
  /\ cleanupRes = "none"
  /\ jobs # <<>>
  /\ disk' = (disk \ {Output}) \ Uploads
  /\ jobs' = <<>>
  /\ cleanupRes' = "200 cleanup complete"
  /\ UNCHANGED <<notJobVars, body, mergeRes, merge, sse, interval, frames, reqClosed>>

\* One POST /merge naming 0 to MaxClips clips, with the uploaded files of
\* its first two clips on disk or not.
InitJobs ==
  /\ OnlyJobs
  /\ body \in 0..MaxClips
  /\ disk \in SUBSET Uploads
  /\ mergeRes = "none"
  /\ jobs = <<>>
  /\ merge = "none"
  /\ sse = "none"
  /\ interval = "none"
  /\ frames = <<>>
  /\ reqClosed = FALSE
  /\ cleanupRes = "none"

NextJobs ==
  \/ startMerge_badCount
  \/ startMerge_notFound
  \/ startMerge_accept
  \/ merge_probeFailed
  \/ merge_run
  \/ ffmpeg_openInputs
  \/ ffmpeg_createOutput
  \/ ffmpeg_progress
  \/ ffmpeg_end
  \/ ffmpeg_error
  \/ streamProgress_notFound
  \/ streamProgress_open
  \/ interval_tick
  \/ req_close
  \/ cleanup_notFound
  \/ cleanup

SpecJobs == InitJobs /\ [][NextJobs]_vars

\* The timer fires as long as it is set, and the ffmpeg process comes to an
\* end.
FairJobs ==
  /\ WF_vars(interval_tick)
  /\ WF_vars(ffmpeg_end \/ ffmpeg_error)
  /\ WF_vars(merge_run \/ merge_probeFailed)
  /\ WF_vars(ffmpeg_createOutput)

SpecJobsFair == SpecJobs /\ FairJobs

\* C21 as stated: a request naming no clip is rejected for its clip count
\* before a job, a plan or the engine exists, and a request naming one clip
\* or more is never rejected for its clip count.
C21_ClipCountAccepted ==
  /\ (body < 1 /\ mergeRes # "none") =>
       (mergeRes = "400 exactly 2 videos" /\ jobs = <<>> /\ merge = "none")
  /\ body >= 1 => mergeRes # "400 exactly 2 videos"

----------------------------------------------------------------------------
(* The stale-file job: cleanupOldFiles of src/unnamed/part_005 and its     *)
(* schedule in src/unnamed/part_002.  Times are in units of 10 minutes.     *)

\* 60 * 60 * 1000 ms
oneHour == 6
\* '*/30 * * * *'
cronPeriod == 3

FileNames == {"uploads/clip", "outputs/merged"}

\* A run that also takes the files modified exactly one hour ago.
IsStale_orEqual(mtime, t) == mtime <= t - oneHour

\* stat.mtimeMs < oneHourAgo
IsStale(mtime, t) == mtime < t - oneHour

cleanupOldFiles(fs, t) == {f \in fs : ~IsStale(f.mtime, t)}

\* An upload is stored or an output file is written.
file_write ==
  /\ \E nm \in FileNames :
       files' = {f \in files : f.name # nm} \cup {[name |-> nm, mtime |-> now]}
  /\ UNCHANGED <<notCronVars, now, lastRun>>

\* A file is unlinked by a request (cleanup, download).
file_unlink ==
  /\ \E f \in files : files' = files \ {f}
  /\ UNCHANGED <<notCronVars, now, lastRun>>

\* The cron job fires on the half hour.
cron_run ==
  /\ now % cronPeriod = 0
  /\ lastRun # now
  /\ files' = cleanupOldFiles(files, now)
  /\ lastRun' = now
  /\ UNCHANGED <<notCronVars, now>>

\* Time passes; on the half hour the cron job has fired before it goes on.
clock_tick ==
  /\ now < MaxTime
  /\ now % cronPeriod = 0 => lastRun = now
  /\ now' = now + 1
  /\ UNCHANGED <<notCronVars, files, lastRun>>

InitCron ==
  /\ OnlyCron
  /\ now = 0
  /\ files = {}
  /\ lastRun = 0

NextCron ==
  \/ file_write
  \/ file_unlink
  \/ cron_run
  \/ clock_tick

SpecCron == InitCron /\ [][NextCron]_vars

Age(f) == now - f.mtime

----------------------------------------------------------------------------
(* The page: slots, uploads and the merge button, src/frontend/app.js.      *)

\* while (slotIndex < 2 && slots[slotIndex] !== null) slotIndex++
RECURSIVE skipFilled(_, _)
skipFilled(s, slotIndex) ==
  IF slotIndex < 2 /\ s[slotIndex + 1] # 0 THEN skipFilled(s, slotIndex + 1) ELSE slotIndex

\* The slot one dropped file is uploaded into, scanning from slotIndex.
dropTarget(s, slotIndex) ==
  LET j == skipFilled(s, slotIndex) IN IF j >= 2 THEN 0 ELSE j

\* The slots the files of one drop are uploaded into, in order.
dropTargets(s, k) ==
  LET t1 == dropTarget(s, 0)
      t2 == dropTarget(s, t1 + 1)
  IN  IF k = 1 THEN <<t1>> ELSE <<t1, t2>>

\* renderSlot ends with mergeBtn.disabled = !(slots[0] && slots[1]).
renderSlot(s) == ~(s[1] # 0 /\ s[2] # 0)

\* Files are dropped on the shared zone: none or more than two video files
\* give a toast, one or two are uploaded.
handleDroppedFiles ==
  /\ \E k \in 0..3 :
       IF k = 0 \/ k > 2
       THEN UNCHANGED <<inflight, nextFile>>
       ELSE /\ nextFile + k - 1 <= MaxFiles
            /\ LET t == dropTargets(slots, k) IN
                 inflight' = inflight \cup
                   {[file |-> nextFile + j - 1, slot |-> t[j]] : j \in 1..k}
            /\ nextFile' = nextFile + k
  /\ UNCHANGED <<notPageVars, slots, disabled, merging>>

\* A file is chosen with the file input of slot i.
pickFile ==
  /\ nextFile <= MaxFiles
  /\ \E si \in 0..1 : inflight' = inflight \cup {[file |-> nextFile, slot |-> si]}
  /\ nextFile' = nextFile + 1
  /\ UNCHANGED <<notPageVars, slots, disabled, merging>>

\* uploadSingleFile after its fetch: the slot is filled and rendered.
uploadSingleFile_ok ==
  /\ \E u \in inflight :
       /\ inflight' = inflight \ {u}
       /\ slots' = [slots EXCEPT ![u.slot + 1] = u.file]
  /\ disabled' = renderSlot(slots')
  /\ UNCHANGED <<notPageVars, merging, nextFile>>

\* The upload is refused or the network fails: a toast.
uploadSingleFile_failed ==
  /\ \E u \in inflight : inflight' = inflight \ {u}
  /\ UNCHANGED <<notPageVars, slots, disabled, merging, nextFile>>

\* The remove button of a filled slot.
removeSlot ==
  /\ \E si \in 0..1 :
       /\ slots[si + 1] # 0
       /\ slots' = [slots EXCEPT ![si + 1] = 0]
  /\ disabled' = renderSlot(slots')
  /\ UNCHANGED <<notPageVars, inflight, merging, nextFile>>

\* A click on the enabled merge button: startMerge up to its fetch.
startMerge_click ==
  /\ ~disabled
  /\ merging < MaxMerges
  /\ IF slots[1] = 0 \/ slots[2] = 0
     THEN UNCHANGED <<disabled, merging>>
     ELSE disabled' = TRUE /\ merging' = merging + 1
  /\ UNCHANGED <<notPageVars, slots, inflight, nextFile>>

\* startMerge comes to an end: a refused request, an error frame, the done
\* frame, the end of the stream or a network error.
startMerge_outcome ==
  /\ merging > 0
  /\ merging' = merging - 1
  /\ disabled' = FALSE
  /\ UNCHANGED <<notPageVars, slots, inflight, nextFile>>

InitPage ==
  /\ OnlyPage
  /\ slots = <<0, 0>>
  /\ inflight = {}
  /\ disabled \in BOOLEAN
  /\ merging = 0
  /\ nextFile = 1

NextPage ==
  \/ handleDroppedFiles
  \/ pickFile
  \/ uploadSingleFile_ok
  \/ uploadSingleFile_failed
  \/ removeSlot
  \/ startMerge_click
  \/ startMerge_outcome

SpecPage == InitPage /\ [][NextPage]_vars

\* C24 as stated: the two files of one drop are uploaded into different
\* slots, whatever the slots held before.
C24_DropFillsBothSlots ==
  [][nextFile' = nextFile + 2 =>
       \A u, v \in inflight' \ inflight : u.file # v.file => u.slot # v.slot]_vars

\* C30 as stated: while a merge is in flight the merge button is disabled,
\* and no two merges are in flight.
C30_OneMergeInFlight ==
  /\ merging > 0 => disabled
  /\ merging <= 1

----------------------------------------------------------------------------
(* Claims on the job store, checked under SpecJobs.                         *)

AtMost99(x) == ~IsNaN(x) /\ x <= 99

\* C25 as stated: a job is created as processing, its status changes at
\* most once, to completed or failed, and never after that; progress is 100
\* whenever the status is completed and at most 99 while it is processing.
C25_JobStatus ==
  /\ [](\A k \in 1..Len(jobs) :
          /\ jobs[k].status \in {"processing", "completed", "failed"}
          /\ jobs[k].status = "completed" => jobs[k].progress = 100
          /\ jobs[k].status = "processing" => AtMost99(jobs[k].progress))
  /\ [][/\ (jobs = <<>> /\ jobs' # <<>>) => jobs'[1].status = "processing"
        /\ (jobs # <<>> /\ jobs' # <<>> /\ jobs[1].status # "processing")
             => jobs'[1].status = jobs[1].status]_vars

\* C26 as stated: once DELETE /cleanup/:id has answered success the job is
\* not in the store and neither its output file nor its uploaded files
\* exist, in every later state.
C26_CleanupIsFinal ==
  cleanupRes = "200 cleanup complete" =>
    /\ jobs = <<>>
    /\ Output \notin disk
    /\ disk \cap Uploads = {}

\* The frames of the stream that carry a terminal status.
FinalFrames == {k \in 1..Len(frames) : Finished(frames[k])}

JobFinished == IF jobs = <<>> THEN FALSE ELSE Finished(jobs[1])

\* C27: the timer of an open stream is cleared in the end; the frame with
\* a terminal status is written once, as the last frame, and the response
\* is ended with it; the tick that finds a finished job writes that frame
\* and ends the response; while the job is not in the store and after the
\* client has closed the connection no frame is written.
C27_StreamStops ==
  /\ (interval = "on") ~> (interval = "cleared")
  /\ (interval = "on" /\ JobFinished) ~>
       (reqClosed \/ jobs = <<>> \/ (sse = "ended" /\ FinalFrames # {}))
  /\ [](/\ Cardinality(FinalFrames) <= 1
        /\ \A k \in FinalFrames : k = Len(frames) /\ sse = "ended" /\ interval = "cleared")
  /\ [][(JobFinished /\ sse = "open" /\ sse' = "ended") => frames' = Append(frames, jobs[1])]_vars
  /\ [][(jobs = <<>> \/ reqClosed) => frames' = frames]_vars

\* A stream has written frames of a job in progress, then the frame of its
\* terminal status, and has ended.
C27_Witness ==
  /\ sse = "ended"
  /\ Len(frames) >= 2
  /\ FinalFrames = {Len(frames)}

----------------------------------------------------------------------------
(* POST /merge as an event stream: startMerge of src/unnamed/part_004.      *)

\* The job id of the request.
JobId == "job"

\* A done frame that lacks the download URL.
doneFrame_noUrl(jobId) ==
  [percent |-> 100, done |-> TRUE, error |-> FALSE, downloadUrl |-> "none", jobId |-> jobId]

\* send({ percent: 0, error })
errorFrame ==
  [percent |-> 0, done |-> FALSE, error |-> TRUE, downloadUrl |-> "none", jobId |-> "none"]

\* send({ percent, status })
statusFrame(percent) ==
  [percent |-> percent, done |-> FALSE, error |-> FALSE, downloadUrl |-> "none",
   jobId |-> "none"]

\* send({ percent: 100, done: true, downloadUrl, jobId })
doneFrame(jobId) ==
  [percent |-> 100, done |-> TRUE, error |-> FALSE, downloadUrl |-> "/outputs/merged",
   jobId |-> jobId]

\* Rounded percentages the helper calls back with.
EnginePercents == {1, 25, 50, 75, 100}

\* 5 + Math.round(percent * 0.9)
mapped(percent) == 5 + ((9 * percent + 5) \div 10)

\* videos missing, not an array or not of length 2: an error frame, end.
sse_badCount ==
  /\ call = "pending"
  /\ named # 2
  /\ written' = Append(written, errorFrame)
  /\ ends' = ends + 1
  /\ call' = "returned"
  /\ UNCHANGED <<notSseVars, named, onDisk, jobStore>>

\* A named file does not exist: an error frame, end.
sse_notFound ==
  /\ call = "pending"
  /\ named = 2
  /\ ~(Uploads \subseteq onDisk)
  /\ written' = Append(written, errorFrame)
  /\ ends' = ends + 1
  /\ call' = "returned"
  /\ UNCHANGED <<notSseVars, named, onDisk, jobStore>>

\* The first frame, then `await mergeVideos(...)`.
sse_starting ==
  /\ call = "pending"
  /\ named = 2
  /\ Uploads \subseteq onDisk
  /\ written' = Append(written, statusFrame(5))
  /\ call' = "merging"
  /\ UNCHANGED <<notSseVars, named, onDisk, ends, jobStore>>

\* The progress callback handed to mergeVideos.
sse_onProgress ==
  /\ call = "merging"
  /\ Len(written) <= MaxFrames
  /\ \E percent \in EnginePercents :
       written' = Append(written, statusFrame(mapped(percent)))
  /\ UNCHANGED <<notSseVars, named, onDisk, call, ends, jobStore>>

\* mergeVideos resolves: the job is recorded, the done frame sent, end.
sse_merged ==
  /\ call = "merging"
  /\ jobStore' = jobStore \cup {JobId}
  /\ written' = Append(written, doneFrame(JobId))
  /\ ends' = ends + 1
  /\ call' = "returned"
  /\ UNCHANGED <<notSseVars, named, onDisk>>

\* mergeVideos rejects: catch sends an error frame, end.
sse_failed ==
  /\ call = "merging"
  /\ written' = Append(written, errorFrame)
  /\ ends' = ends + 1
  /\ call' = "returned"
  /\ UNCHANGED <<notSseVars, named, onDisk, jobStore>>

InitSse ==
  /\ OnlySse
  /\ named \in 0..MaxClips
  /\ onDisk \in SUBSET Uploads
  /\ call = "pending"
  /\ written = <<>>
  /\ ends = 0
  /\ jobStore = {}

NextSse ==
  \/ sse_badCount
  \/ sse_notFound
  \/ sse_starting
  \/ sse_onProgress
  \/ sse_merged
  \/ sse_failed

SpecSse == InitSse /\ [][NextSse]_vars

\* The handler runs, and mergeVideos settles.
SpecSseFair == SpecSse /\ WF_vars(NextSse)

IsTerminal(f) == f.done \/ f.error

\* C28: the response is ended, and only once; when it is, its last frame is
\* its only terminal frame, a done frame with percent 100, a download URL
\* and the job id or an error frame; nothing is written after a terminal
\* frame; and the store holds the job exactly when the done frame was sent.
C28_OneTerminalFrame ==
  /\ <>(ends = 1)
  /\ [](ends <= 1)
  /\ [](ends = 1 => written # <<>>)
  /\ [](\A k \in 1..Len(written) :
          /\ IsTerminal(written[k]) <=> (ends = 1 /\ k = Len(written))
          /\ written[k].done =>
               /\ ~written[k].error
               /\ written[k].percent = 100
               /\ written[k].downloadUrl # "none"
               /\ written[k].jobId = JobId)
  /\ [](jobStore # {} <=> \E k \in 1..Len(written) : written[k].done)
  /\ [][ends = 1 => written' = written]_vars

\* A merge has sent progress frames and then the done frame.
C28_Witness ==
  /\ ends = 1
  /\ Len(written) >= 3
  /\ written[Len(written)].done
  /\ jobStore = {JobId}

----------------------------------------------------------------------------
(* POST /merge with multipart form data: mergeVideosRest of                 *)
(* src/unnamed/part_004.  An uploaded file is named after its field.        *)

Fields == {"video1", "video2"}

ALLOWED_TYPES ==
  {"video/mp4", "video/quicktime", "video/webm", "video/x-msvideo",
   "video/x-matroska", "video/ogg", "video/mpeg", "video/3gpp"}

\* Types the upload middleware lets through: file.mimetype.startsWith('video/').
MimeTypes == {"video/mp4", "video/webm", "video/quicktime", "video/ogg", "video/x-flv"}

Merged == "merged.mp4"

\* tempFiles.forEach(f => { if (fs.existsSync(f)) fs.unlinkSync(f) })
unlinkAll(dir, paths) == dir \ paths

uploadedFields == {f.field : f \in reqFiles}

\* A field is missing: 400.
rest_missingField ==
  /\ rest = "start"
  /\ uploadedFields # Fields
  /\ restStatus' = 400
  /\ rest' = "finished"
  /\ UNCHANGED <<notRestVars, reqFiles, tempFiles, tmpDir>>

\* Both paths are collected; a type outside ALLOWED_TYPES: 400.
rest_invalidType ==
  /\ rest = "start"
  /\ uploadedFields = Fields
  /\ \E f \in reqFiles : f.mimetype \notin ALLOWED_TYPES
  /\ tempFiles' = Fields
  /\ restStatus' = 400
  /\ rest' = "finished"
  /\ UNCHANGED <<notRestVars, reqFiles, tmpDir>>

\* Both files pass: the output path is collected and mergeVideos awaited.
rest_merge ==
  /\ rest = "start"
  /\ uploadedFields = Fields
  /\ \A f \in reqFiles : f.mimetype \in ALLOWED_TYPES
  /\ tempFiles' = Fields \cup {Merged}
  /\ rest' = "merging"
  /\ UNCHANGED <<notRestVars, reqFiles, tmpDir, restStatus>>

\* The engine creates the output file.
rest_outputCreated ==
  /\ rest = "merging"
  /\ Merged \notin tmpDir
  /\ tmpDir' = tmpDir \cup {Merged}
  /\ UNCHANGED <<notRestVars, reqFiles, tempFiles, rest, restStatus>>

\* mergeVideos rejects: catch unlinks the collected files, 500.
rest_mergeFailed ==
  /\ rest = "merging"
  /\ tmpDir' = unlinkAll(tmpDir, tempFiles)
  /\ restStatus' = 500
  /\ rest' = "finished"
  /\ UNCHANGED <<notRestVars, reqFiles, tempFiles>>

\* mergeVideos resolves: the output file is piped to the response.
rest_pipe ==
  /\ rest = "merging"
  /\ Merged \in tmpDir
  /\ restStatus' = 200
  /\ rest' = "streaming"
  /\ UNCHANGED <<notRestVars, reqFiles, tempFiles, tmpDir>>

\* fileStream 'end': the collected files are unlinked.
rest_streamEnd ==
  /\ rest = "streaming"
  /\ tmpDir' = unlinkAll(tmpDir, tempFiles)
  /\ rest' = "finished"
  /\ UNCHANGED <<notRestVars, reqFiles, tempFiles, restStatus>>

\* fileStream 'error': logged, and 500 unless the headers are sent.
rest_streamError ==
  /\ rest = "streaming"
  /\ \E sent \in BOOLEAN : restStatus' = IF sent THEN restStatus ELSE 500
  /\ rest' = "finished"
  /\ UNCHANGED <<notRestVars, reqFiles, tempFiles, tmpDir>>

\* The upload middleware has stored the fields of the request.
InitRest ==
  /\ OnlyRest
  /\ \E fs \in SUBSET Fields :
       \E ty \in [fs -> MimeTypes] :
         /\ reqFiles = {[field |-> f, mimetype |-> ty[f]] : f \in fs}
         /\ tmpDir = fs
  /\ tempFiles = {}
  /\ rest = "start"
  /\ restStatus = 0

NextRest ==
  \/ rest_missingField
  \/ rest_invalidType
  \/ rest_merge
  \/ rest_outputCreated
  \/ rest_mergeFailed
  \/ rest_pipe
  \/ rest_streamEnd
  \/ rest_streamError

SpecRest == InitRest /\ [][NextRest]_vars

\* C29 as stated: when the request is finished, neither an uploaded input
\* file nor the output file is on disk.
C29_TempFilesDeleted == rest = "finished" => tmpDir = {}

====
